---- MODULE Spec2Model ----
(***************************************************************************)
(* The translation orchestrator of the Deka SDK: the single-provider call  *)
(* path (translate_async), the sequential comparison loop (compare), the   *)
(* concurrent fan-out (compare_async), the provider adapters' invocation   *)
(* and session handling, and the exception hierarchy that decides which    *)
(* failures a handler catches.                                             *)
(*                                                                         *)
(* Time is counted in ticks (seconds).  A step that does not wait on the   *)
(* network takes no time: Tick is enabled only when every task that can    *)
(* run has run up to its next network wait, as the event loop runs every   *)
(* ready callback before it blocks.                                        *)
(***************************************************************************)
EXTENDS Integers, Sequences, FiniteSets, TLC

\* ---------------------------------------------------------------- bounds
MaxProviders == 3
MaxLatency == 2

\* ------------------------------------------------------ program constants
\* aiohttp.ClientTimeout(total=30)
ClientTimeoutTotal == 30

\* The entry points: compare (core.py), the comparison loop as excerpted in
\* the exceptions chapter, compare_async and translate_async.
Modes == {"compare", "compare_degrade", "compare_async", "translate_async"}

SyncModes == {"compare", "compare_degrade"}

\* ------------------------------------------------------ exception classes
ExceptionClasses ==
    {"Exception", "DekaError", "ConfigurationError", "APIKeyError",
     "ProviderError", "RateLimitError", "QuotaExceededError",
     "LanguageNotSupportedError", "TimeoutError"}

\* The direct base class of each exception class.
BaseClass(e) ==
    CASE e = "DekaError" -> "Exception"
      [] e = "ConfigurationError" -> "DekaError"
      [] e = "APIKeyError" -> "ConfigurationError"
      [] e = "ProviderError" -> "DekaError"
      [] e = "RateLimitError" -> "ProviderError"
      [] e = "QuotaExceededError" -> "ProviderError"
      [] e = "LanguageNotSupportedError" -> "DekaError"
      [] e = "TimeoutError" -> "Exception"
      [] OTHER -> "Exception"

RECURSIVE IsInstance(_, _)
IsInstance(e, c) ==
    IF e = c THEN TRUE
    ELSE IF e = "Exception" THEN FALSE
    ELSE IsInstance(BaseClass(e), c)

\* ------------------------------------------------------ adapter invocation
\* What a backend can answer: a well-formed 200, a 200 whose payload lacks
\* the expected fields, a 401, a 429, or a transport failure.
Replies == {"ok", "malformed", "401", "429", "ClientError"}

\* _handle_http_error: 401 -> APIKeyError, 429 -> RateLimitError.
HandleHttpError(reply) ==
    CASE reply = "401" -> "APIKeyError"
      [] reply = "429" -> "RateLimitError"
      [] OTHER -> "ok"

\* The adapter's translate: the exception class it raises, or "ok".
AdapterOutcome(reply) ==
    IF reply = "ClientError" THEN "ProviderError"
    ELSE IF HandleHttpError(reply) # "ok" THEN HandleHttpError(reply)
    ELSE IF reply = "malformed" THEN "ProviderError"
    ELSE "ok"

\* ------------------------------------------------------------------ values
Pending == [tag |-> "pending", v |-> ""]
None == [tag |-> "none", v |-> ""]
Response(p) == [tag |-> "response", v |-> p]
Raised(e) == [tag |-> "exception", v |-> e]

IsResponse(x) == x.tag = "response"

\* The registry's keys in the order the registry lists them.
RegistryOrder == <<"google", "deepl", "openai", "anthropic">>

\* The provider registry's keys.
PROVIDERS == {RegistryOrder[i] : i \in 1..Len(RegistryOrder)}

Reverse(s) == [i \in 1..Len(s) |-> s[Len(s) + 1 - i]]

Min(a, b) == IF a <= b THEN a ELSE b

\* The provider lists a call is given: the first entries of the registry in
\* its order or in the opposite order, without repetition.
ProviderLists ==
    {SubSeq(l, 1, n) : l \in {RegistryOrder, Reverse(RegistryOrder)},
                       n \in 1..Min(MaxProviders, Len(RegistryOrder))}

VARIABLES
    mode,          \* the entry point called
    providers,     \* the provider list of the call
    pc,            \* the orchestrator's position
    k,             \* the loop index of the orchestrator
    inst,          \* inst[i]: the adapter of entry i exists
    deleted,       \* the adapters' finalizers have run
    st,            \* st[i]: the invocation state of adapter i
    calls,         \* calls[i]: network calls dispatched by adapter i
    session,       \* session[i]: "none", "open" or "closed"
    opens,         \* opens[i]: sessions created by adapter i
    releases,      \* releases[i]: session.close() performed on adapter i
    closeCalls,    \* closeCalls[i]: calls of adapter i's close()
    tpc,           \* tpc[i]: the position of the task of entry i
    slot,          \* slot[i]: what the task of entry i delivers
    fate,          \* fate[i]: "ok" or the exception class the adapter raised
    results,       \* the responses collected
    errors,        \* the failures recorded by compare
    outcome,       \* "pending", "returned", "raised" or "loop_exit"
    raised,        \* the exception class the call raised
    now,           \* the clock
    dispatchedAt,  \* dispatchedAt[i]: when the network call was dispatched
    completedAt    \* completedAt[i]: when its outcome arrived

\* The selector parser applied to one selector.
VARIABLES
    selector,      \* the selector string, as its pieces
    parsed,        \* what parse_provider_name returned for it
    resolved       \* what resolve_provider_and_model returned for it

\* One call from its entry to the dispatch of its network calls.
VARIABLES
    entry,         \* the entry point called
    config,        \* the providers whose <provider>_api_key is in _config,
                   \* in the order the keys were inserted
    text,          \* the text argument
    target,        \* the target_language argument
    selectors,     \* the provider selectors given (none: the empty list)
    chosen,        \* the selectors in effect once the default is applied
    cpc,           \* the call's position
    cur,           \* the index of the entry being processed
    adapters,      \* the adapters constructed: provider and model
    network,       \* the network calls dispatched: provider and model
    collected,     \* the responses collected
    ended          \* how the call ended

\* The language resolver applied to one input.
VARIABLES
    tables,        \* ISO_TO_NAME: the (code, name) entries loaded
    word,          \* the input string, as its characters
    lpc,           \* the position in the sequence of resolver calls
    normalized,    \* what normalize_language returned for the input
    again,         \* what normalize_language returned for that result
    code           \* what get_provider_code returned

\* The configuration module across configure calls and reads.
VARIABLES
    settings,      \* _config: the keys configured and their values
    history,       \* the arguments of the configure calls made, in order
    fetched        \* the last read: its key, its result and the number of
                   \* configure calls made before it

\* The adapters' connection sessions across calls.
VARIABLES
    sessionRef,    \* sessionRef[i]: self._session of adapter i (0: None)
    pool,          \* the ClientSession objects created: owner and closed
    inflight       \* the requests posted and not answered: adapter, session

\* The comparison demo of the web site (HeroOptionA, HeroOptionB).
VARIABLES
    sourceLanguage, \* the code selected in "From"
    targetLanguage, \* the code selected in "To"
    isTranslating,
    showResults,
    timers,         \* the setTimeout callbacks pending: kind, due time, number
    clock           \* the time since the mount, in units of TimeUnit ms

orchVars == <<mode, providers, pc, k, inst, deleted, st, calls, session,
              opens, releases, closeCalls, tpc, slot, fate, results, errors,
              outcome, raised, now, dispatchedAt, completedAt>>

parseVars == <<selector, parsed, resolved>>

callVars == <<entry, config, text, target, selectors, chosen, cpc, cur,
              adapters, network, collected, ended>>

langVars == <<tables, word, lpc, normalized, again, code>>

confVars == <<settings, history, fetched>>

sessVars == <<sessionRef, pool, inflight>>

demoVars == <<sourceLanguage, targetLanguage, isTranslating, showResults,
              timers, clock>>

frontVars == <<parseVars, callVars, langVars, confVars, sessVars, demoVars>>

vars == <<orchVars, frontVars>>

\* A read that has not happened.
NoRead == [fn |-> "none", key |-> "", at |-> 0, result |-> None]

\* Nothing is configured and nothing was read.
ConfIdle == settings = <<>> /\ history = <<>> /\ fetched = NoRead

\* No adapter exists outside a call.
SessIdle == sessionRef = <<>> /\ pool = <<>> /\ inflight = {}

\* The demo is not mounted.
DemoIdle ==
    /\ sourceLanguage = ""
    /\ targetLanguage = ""
    /\ isTranslating = FALSE
    /\ showResults = FALSE
    /\ timers = {}
    /\ clock = 0

\* No selector is being parsed.
ParseIdle == selector = <<>> /\ parsed = <<>> /\ resolved = <<>>

\* No call is in its front end.
CallIdle ==
    /\ entry = "none"
    /\ config = <<>>
    /\ text = ""
    /\ target = <<>>
    /\ selectors = <<>>
    /\ chosen = <<>>
    /\ cpc = "idle"
    /\ cur = 0
    /\ adapters = <<>>
    /\ network = <<>>
    /\ collected = <<>>
    /\ ended = <<>>

\* The language resolver is not being called.
LangIdle ==
    /\ tables = {}
    /\ word = <<>>
    /\ lpc = "idle"
    /\ normalized = <<>>
    /\ again = <<>>
    /\ code = <<>>

N == Len(providers)
Idx == 1..N

Init ==
    /\ mode \in Modes
    /\ providers \in ProviderLists
    /\ mode = "translate_async" => Len(providers) = 1
    /\ pc = IF mode \in SyncModes THEN "loop" ELSE "instantiate"
    /\ k = 1
    /\ inst = [i \in 1..Len(providers) |-> FALSE]
    /\ deleted = FALSE
    /\ st = [i \in 1..Len(providers) |-> "Idle"]
    /\ calls = [i \in 1..Len(providers) |-> 0]
    /\ session = [i \in 1..Len(providers) |-> "none"]
    /\ opens = [i \in 1..Len(providers) |-> 0]
    /\ releases = [i \in 1..Len(providers) |-> 0]
    /\ closeCalls = [i \in 1..Len(providers) |-> 0]
    /\ tpc = [i \in 1..Len(providers) |-> "none"]
    /\ slot = [i \in 1..Len(providers) |-> Pending]
    /\ fate = [i \in 1..Len(providers) |-> "pending"]
    /\ results = <<>>
    /\ errors = <<>>
    /\ outcome = "pending"
    /\ raised = "none"
    /\ now = 0
    /\ dispatchedAt = [i \in 1..Len(providers) |-> 0]
    /\ completedAt = [i \in 1..Len(providers) |-> 0]
    /\ ParseIdle
    /\ CallIdle
    /\ LangIdle
    /\ ConfIdle
    /\ DemoIdle
    /\ SessIdle


\* --------------------------------------------------------------- helpers
Elapsed(i) == now - dispatchedAt[i]

InFlight == {i \in Idx : tpc[i] = "awaiting"}

\* How long an invocation may stay in flight: the session's total timeout
\* on the aiohttp path; the blocking path is modelled with backends that
\* answer within MaxLatency.
Deadline == IF mode \in SyncModes THEN MaxLatency ELSE ClientTimeoutTotal

\* BaseProvider._get_session: a new session only when there is none or it
\* is closed.
NeedsNewSession(s) == s = "none" \/ s = "closed"

\* BaseProvider.close: the session is closed only when there is one and it
\* is not closed yet.
ClosesSession(s) == s = "open"

\* The handler of translate_with_provider in compare_async: except Exception.
WrapperCatches(e) == IsInstance(e, "Exception")

\* Delivered with the adapter's error replaced by a generic DekaError.
DeliveredWrapped(m, p, e) ==
    IF e = "ok" THEN Response(p)
    ELSE IF m = "compare_async" /\ WrapperCatches(e) THEN None
    ELSE Raised("DekaError")

\* What the task of an entry delivers to whoever awaits it.
Delivered(m, p, e) ==
    IF e = "ok" THEN Response(p)
    ELSE IF m = "compare_async" /\ WrapperCatches(e) THEN None
    ELSE Raised(e)

\* LoopCatches with except ProviderError in every loop.
LoopCatchesProviderErrorOnly(m, e) == IsInstance(e, "ProviderError")

\* The except clause of the comparison loop: except Exception in core.py,
\* except ProviderError in the loop excerpted in the exceptions chapter.
LoopCatches(m, e) ==
    IF m = "compare" THEN IsInstance(e, "Exception")
    ELSE IsInstance(e, "ProviderError")

\* Runnable with the coroutines awaited one after the other.
RunnableInTurn(i) ==
    /\ pc \in {"gather", "await"}
    /\ tpc[i] = "scheduled"
    /\ \A j \in 1..(i - 1) : tpc[j] = "done"

\* asyncio.gather schedules every task when it is awaited; the event loop
\* starts the scheduled tasks in the order they were scheduled.
Runnable(i) ==
    /\ pc \in {"gather", "await"}
    /\ tpc[i] = "scheduled"
    /\ \A j \in 1..(i - 1) : tpc[j] # "scheduled"

\* GatherResults with the values taken as the tasks complete.
AsCompletedResults ==
    LET Earlier(j, i) ==
            \/ completedAt[j] < completedAt[i]
            \/ completedAt[j] = completedAt[i] /\ j < i
        Rank(i) == Cardinality({j \in Idx : Earlier(j, i)}) + 1
    IN  [r \in Idx |-> slot[CHOOSE i \in Idx : Rank(i) = r]]

\* asyncio.gather returns the tasks' values in the order of the tasks.
GatherResults == [i \in Idx |-> slot[i]]

\* ---------------------------------------------------------------- actions
\* create_provider_instance for the next entry of the list.
Instantiate(i) ==
    /\ pc = "instantiate"
    /\ k = i
    /\ i <= N
    /\ inst' = [inst EXCEPT ![i] = TRUE]
    /\ k' = k + 1
    /\ UNCHANGED <<mode, providers, pc, deleted, st, calls, session, opens,
                   releases, closeCalls, tpc, slot, fate, results, errors,
                   outcome, raised, now, dispatchedAt, completedAt>>
    /\ UNCHANGED frontVars

\* compare_async: the coroutines are created and gathered.
Gather ==
    /\ pc = "instantiate"
    /\ mode = "compare_async"
    /\ k > N
    /\ pc' = "gather"
    /\ tpc' = [i \in Idx |-> "scheduled"]
    /\ UNCHANGED <<mode, providers, k, inst, deleted, st, calls, session,
                   opens, releases, closeCalls, slot, fate, results, errors,
                   outcome, raised, now, dispatchedAt, completedAt>>
    /\ UNCHANGED frontVars

\* translate_async: await provider_instance.translate_async(request).
AwaitTranslate ==
    /\ pc = "instantiate"
    /\ mode = "translate_async"
    /\ k > N
    /\ pc' = "await"
    /\ tpc' = [i \in Idx |-> "scheduled"]
    /\ UNCHANGED <<mode, providers, k, inst, deleted, st, calls, session,
                   opens, releases, closeCalls, slot, fate, results, errors,
                   outcome, raised, now, dispatchedAt, completedAt>>
    /\ UNCHANGED frontVars

\* The adapter's translate_async up to its network wait: the session is
\* fetched and the request posted.
TaskStart(i) ==
    /\ Runnable(i)
    /\ session' = [session EXCEPT ![i] = "open"]
    /\ opens' = [opens EXCEPT
                 ![i] = IF NeedsNewSession(session[i]) THEN @ + 1 ELSE @]
    /\ st' = [st EXCEPT ![i] = "Dispatching"]
    /\ calls' = [calls EXCEPT ![i] = @ + 1]
    /\ dispatchedAt' = [dispatchedAt EXCEPT ![i] = now]
    /\ tpc' = [tpc EXCEPT ![i] = "awaiting"]
    /\ UNCHANGED <<mode, providers, pc, k, inst, deleted, releases,
                   closeCalls, slot, fate, results, errors, outcome, raised,
                   now, completedAt>>
    /\ UNCHANGED frontVars

\* The outcome e of the invocation of entry i has arrived.
Complete(i, e) ==
    /\ fate' = [fate EXCEPT ![i] = e]
    /\ st' = [st EXCEPT ![i] = IF e = "ok" THEN "Succeeded" ELSE "Failed"]
    /\ completedAt' = [completedAt EXCEPT ![i] = now]

\* Respond with the request posted once more after a failure.
RespondRetrying(i, r) ==
    /\ mode \notin SyncModes
    /\ tpc[i] = "awaiting"
    /\ Elapsed(i) \in 1..MaxLatency
    /\ IF AdapterOutcome(r) # "ok" /\ calls[i] < 2
       THEN /\ calls' = [calls EXCEPT ![i] = @ + 1]
            /\ dispatchedAt' = [dispatchedAt EXCEPT ![i] = now]
            /\ UNCHANGED <<fate, st, completedAt, slot, tpc>>
       ELSE /\ Complete(i, AdapterOutcome(r))
            /\ slot' = [slot EXCEPT
                        ![i] = Delivered(mode, providers[i], AdapterOutcome(r))]
            /\ tpc' = [tpc EXCEPT ![i] = "finally"]
            /\ UNCHANGED <<calls, dispatchedAt>>
    /\ UNCHANGED <<mode, providers, pc, k, inst, deleted, session, opens,
                   releases, closeCalls, results, errors, outcome, raised,
                   now>>
    /\ UNCHANGED frontVars

\* The backend answers the request of a task.
Respond(i, r) ==
    /\ mode \notin SyncModes
    /\ tpc[i] = "awaiting"
    /\ Elapsed(i) \in 1..MaxLatency
    /\ Complete(i, AdapterOutcome(r))
    /\ slot' = [slot EXCEPT
                ![i] = Delivered(mode, providers[i], AdapterOutcome(r))]
    /\ tpc' = [tpc EXCEPT ![i] = "finally"]
    /\ UNCHANGED <<mode, providers, pc, k, inst, deleted, calls, session,
                   opens, releases, closeCalls, results, errors, outcome,
                   raised, now, dispatchedAt>>
    /\ UNCHANGED frontVars

\* The backend has not answered within the session's total timeout.
TimeoutFires(i) ==
    /\ mode \notin SyncModes
    /\ tpc[i] = "awaiting"
    /\ Elapsed(i) = ClientTimeoutTotal
    /\ Complete(i, "TimeoutError")
    /\ slot' = [slot EXCEPT
                ![i] = Delivered(mode, providers[i], "TimeoutError")]
    /\ tpc' = [tpc EXCEPT ![i] = "finally"]
    /\ UNCHANGED <<mode, providers, pc, k, inst, deleted, calls, session,
                   opens, releases, closeCalls, results, errors, outcome,
                   raised, now, dispatchedAt>>
    /\ UNCHANGED frontVars

\* Finally with the close performed only after a success.
CloseOnSuccessOnly(i) ==
    /\ tpc[i] = "finally"
    /\ closeCalls' = [closeCalls EXCEPT
                      ![i] = IF IsResponse(slot[i]) THEN @ + 1 ELSE @]
    /\ releases' = [releases EXCEPT
                    ![i] = IF IsResponse(slot[i]) /\ ClosesSession(session[i])
                           THEN @ + 1 ELSE @]
    /\ session' = [session EXCEPT
                   ![i] = IF IsResponse(slot[i]) /\ ClosesSession(@)
                          THEN "closed" ELSE @]
    /\ tpc' = [tpc EXCEPT ![i] = "done"]
    /\ UNCHANGED <<mode, providers, pc, k, inst, deleted, st, calls, opens,
                   slot, fate, results, errors, outcome, raised, now,
                   dispatchedAt, completedAt>>
    /\ UNCHANGED frontVars

\* finally: await provider_instance.close().
Finally(i) ==
    /\ tpc[i] = "finally"
    /\ closeCalls' = [closeCalls EXCEPT ![i] = @ + 1]
    /\ releases' = [releases EXCEPT
                    ![i] = IF ClosesSession(session[i]) THEN @ + 1 ELSE @]
    /\ session' = [session EXCEPT
                   ![i] = IF ClosesSession(@) THEN "closed" ELSE @]
    /\ tpc' = [tpc EXCEPT ![i] = "done"]
    /\ UNCHANGED <<mode, providers, pc, k, inst, deleted, st, calls, opens,
                   slot, fate, results, errors, outcome, raised, now,
                   dispatchedAt, completedAt>>
    /\ UNCHANGED frontVars

\* compare_async after gather: the responses are filtered and returned.
GatherReturn ==
    /\ pc = "gather"
    /\ \A i \in Idx : tpc[i] = "done"
    /\ results' = SelectSeq(GatherResults, IsResponse)
    /\ outcome' = "returned"
    /\ pc' = "done"
    /\ UNCHANGED <<mode, providers, k, inst, deleted, st, calls, session,
                   opens, releases, closeCalls, tpc, slot, fate, errors,
                   raised, now, dispatchedAt, completedAt>>
    /\ UNCHANGED frontVars

\* translate_async after its finally block: the response is returned or the
\* adapter's exception leaves the call.
TranslateReturn ==
    /\ pc = "await"
    /\ \A i \in Idx : tpc[i] = "done"
    /\ IF IsResponse(slot[1])
       THEN /\ results' = <<slot[1]>>
            /\ outcome' = "returned"
            /\ raised' = raised
       ELSE /\ results' = results
            /\ outcome' = "raised"
            /\ raised' = slot[1].v
    /\ pc' = "done"
    /\ UNCHANGED <<mode, providers, k, inst, deleted, st, calls, session,
                   opens, releases, closeCalls, tpc, slot, fate, errors,
                   now, dispatchedAt, completedAt>>
    /\ UNCHANGED frontVars

\* The comparison loop calls translate_with_provider for the next entry.
SyncInvoke(i) ==
    /\ pc = "loop"
    /\ k = i
    /\ i <= N
    /\ tpc[i] = "none"
    /\ inst' = [inst EXCEPT ![i] = TRUE]
    /\ st' = [st EXCEPT ![i] = "Dispatching"]
    /\ calls' = [calls EXCEPT ![i] = @ + 1]
    /\ dispatchedAt' = [dispatchedAt EXCEPT ![i] = now]
    /\ tpc' = [tpc EXCEPT ![i] = "awaiting"]
    /\ UNCHANGED <<mode, providers, pc, k, deleted, session, opens, releases,
                   closeCalls, slot, fate, results, errors, outcome, raised,
                   now, completedAt>>
    /\ UNCHANGED frontVars

\* translate_with_provider returns or raises; the loop appends the result,
\* records the failure, or lets the exception leave the call.
SyncReply(i, r) ==
    /\ pc = "loop"
    /\ tpc[i] = "awaiting"
    /\ Elapsed(i) \in 1..MaxLatency
    /\ Complete(i, AdapterOutcome(r))
    /\ tpc' = [tpc EXCEPT ![i] = "done"]
    /\ LET e == AdapterOutcome(r)
       IN  IF e = "ok"
           THEN /\ results' = Append(results, Response(providers[i]))
                /\ k' = k + 1
                /\ UNCHANGED <<errors, outcome, raised, pc>>
           ELSE IF LoopCatches(mode, e)
           THEN /\ errors' = IF mode = "compare"
                             THEN Append(errors, <<providers[i], e>>)
                             ELSE errors
                /\ k' = k + 1
                /\ UNCHANGED <<results, outcome, raised, pc>>
           ELSE /\ outcome' = "raised"
                /\ raised' = e
                /\ pc' = "done"
                /\ UNCHANGED <<results, errors, k>>
    /\ UNCHANGED <<mode, providers, inst, deleted, calls, session, opens,
                   releases, closeCalls, slot, now, dispatchedAt>>
    /\ UNCHANGED frontVars

\* After the loop: compare raises DekaError when no provider succeeded.
LoopEnd ==
    /\ pc = "loop"
    /\ k > N
    /\ IF mode = "compare"
       THEN IF results = <<>>
            THEN outcome' = "raised" /\ raised' = "DekaError"
            ELSE outcome' = "returned" /\ raised' = raised
       ELSE outcome' = "loop_exit" /\ raised' = raised
    /\ pc' = "done"
    /\ UNCHANGED <<mode, providers, k, inst, deleted, st, calls, session,
                   opens, releases, closeCalls, tpc, slot, fate, results,
                   errors, now, dispatchedAt, completedAt>>
    /\ UNCHANGED frontVars

\* BaseProvider.__del__ of every adapter of the call, once the call has ended
\* and no longer holds them: a close is scheduled only for a session that is
\* still open.
Del ==
    /\ pc = "done"
    /\ ~deleted
    /\ deleted' = TRUE
    /\ closeCalls' = [i \in Idx |->
                       IF inst[i] /\ ClosesSession(session[i])
                       THEN closeCalls[i] + 1 ELSE closeCalls[i]]
    /\ releases' = [i \in Idx |->
                     IF inst[i] /\ ClosesSession(session[i])
                     THEN releases[i] + 1 ELSE releases[i]]
    /\ session' = [i \in Idx |->
                    IF inst[i] /\ ClosesSession(session[i])
                    THEN "closed" ELSE session[i]]
    /\ UNCHANGED <<mode, providers, pc, k, inst, st, calls, opens, tpc, slot,
                   fate, results, errors, outcome, raised, now, dispatchedAt,
                   completedAt>>
    /\ UNCHANGED frontVars

\* A second passes: every invocation in flight waits on the network and no
\* task is ready to run.
Tick ==
    /\ InFlight # {}
    /\ \A i \in Idx : ~Runnable(i) /\ tpc[i] # "finally"
    /\ \A i \in InFlight : Elapsed(i) < Deadline
    /\ now' = now + 1
    /\ UNCHANGED <<mode, providers, pc, k, inst, deleted, st, calls, session,
                   opens, releases, closeCalls, tpc, slot, fate, results,
                   errors, outcome, raised, dispatchedAt, completedAt>>
    /\ UNCHANGED frontVars

Next ==
    \/ \E i \in Idx : Instantiate(i)
    \/ Gather
    \/ AwaitTranslate
    \/ \E i \in Idx : TaskStart(i)
    \/ \E i \in Idx, r \in Replies : Respond(i, r)
    \/ \E i \in Idx : TimeoutFires(i)
    \/ \E i \in Idx : Finally(i)
    \/ GatherReturn
    \/ TranslateReturn
    \/ \E i \in Idx : SyncInvoke(i)
    \/ \E i \in Idx, r \in Replies : SyncReply(i, r)
    \/ LoopEnd
    \/ Del
    \/ Tick

Spec == Init /\ [][Next]_vars

\* The event loop runs every ready task and the clock advances.
FairSpec == Spec /\ WF_vars(Next)


\* ------------------------------------------- the blocking loop as a whole
RECURSIVE LoopResults(_, _)
\* The results list of compare after its first n iterations, f[i] being the
\* outcome of translate_with_provider for entry i: a result is appended, a
\* failure is not.
LoopResults(f, n) ==
    IF n = 0 THEN <<>>
    ELSE IF f[n] = "ok"
         THEN Append(LoopResults(f, n - 1), Response(providers[n]))
         ELSE LoopResults(f, n - 1)

\* How compare ends for the outcomes f: it raises DekaError when the results
\* list is empty and returns the results otherwise.
CompareEnd(f) ==
    IF LoopResults(f, N) = <<>>
    THEN [outcome |-> "raised", raised |-> "DekaError", results |-> <<>>]
    ELSE [outcome |-> "returned", raised |-> "none",
          results |-> LoopResults(f, N)]

\* How the call in progress has ended.
CallEnd == [outcome |-> outcome, raised |-> raised, results |-> results]

\* ------------------------------------------------------ derived quantities
Done == pc = "done"

CompareModes == {"compare", "compare_async"}

Settled == \A i \in Idx : fate[i] # "pending"

Succeeding == {i \in Idx : fate[i] = "ok"}

\* How many responses of provider p the call collected.
ResponsesOf(p) == Cardinality({j \in 1..Len(results) : results[j].v = p})

\* The position of provider p in the provider list.
PositionOf(p) == CHOOSE i \in Idx : providers[i] = p

Latency(i) == completedAt[i] - dispatchedAt[i]

RECURSIVE MaxLatencyUpTo(_)
MaxLatencyUpTo(n) ==
    IF n = 0 THEN 0
    ELSE IF Latency(n) > MaxLatencyUpTo(n - 1) THEN Latency(n)
    ELSE MaxLatencyUpTo(n - 1)

RECURSIVE SumLatencyUpTo(_)
SumLatencyUpTo(n) == IF n = 0 THEN 0 ELSE Latency(n) + SumLatencyUpTo(n - 1)

\* ------------------------------------------------------------------ claims

C2_ResultsInInputOrder ==
    (Done /\ mode = "compare_async") =>
        /\ \A a, b \in 1..Len(results) :
               a < b => PositionOf(results[a].v) < PositionOf(results[b].v)
        /\ \A a \in 1..Len(results) : PositionOf(results[a].v) \in Succeeding

\* The second provider answered before the first and is still returned
\* after it.
C2_Witness ==
    /\ Done
    /\ mode = "compare_async"
    /\ N >= 2
    /\ fate[1] = "ok" /\ fate[2] = "ok"
    /\ completedAt[2] < completedAt[1]
    /\ results[1] = Response(providers[1])
    /\ results[2] = Response(providers[2])

\* C3: when every provider fails, compare and compare_async raise an
\* aggregate failure that names each provider with its failure reason, and
\* never return a ComparisonResult without results.
C3_AllFailedRaisesAggregate ==
    (Done /\ mode \in CompareModes /\ Settled /\ Succeeding = {}) =>
        /\ outcome = "raised"
        /\ raised = "DekaError"
        /\ \A i \in Idx :
               \E j \in 1..Len(errors) : errors[j] = <<providers[i], fate[i]>>

C5_TranslateReleasesThenSurfaces ==
    (mode = "translate_async" /\ outcome # "pending") =>
        /\ closeCalls[1] = 1
        /\ releases[1] = 1
        /\ session[1] = "closed"
        /\ fate[1] = "ok" =>
               outcome = "returned" /\ results = <<Response(providers[1])>>
        /\ fate[1] # "ok" => outcome = "raised" /\ raised = fate[1]

\* The adapter's API-key error leaves translate_async after the release.
C5_Witness ==
    /\ mode = "translate_async"
    /\ outcome = "raised"
    /\ raised = "APIKeyError"
    /\ releases[1] = 1
    /\ session[1] = "closed"

\* C6: in the comparison loop a failure of any kind of one provider is
\* recorded and never leaves the call when another provider succeeds, and
\* every other provider of the list is still invoked.
C6_FailureNeverLeavesCompare ==
    (Done /\ mode \in (CompareModes \cup {"compare_degrade"})) =>
        /\ \A i \in Idx : calls[i] = 1
        /\ Succeeding # {} => outcome # "raised"

\* C7: in compare_async every provider's call is dispatched before any
\* outcome has arrived, and the call ends after the largest of the
\* providers' latencies, not after their sum.
C7_FanOutTakesMaxLatency ==
    (mode = "compare_async") =>
        /\ (\E i \in Idx : st[i] \in {"Succeeded", "Failed"}) =>
               \A j \in Idx : st[j] # "Idle" /\ dispatchedAt[j] = 0
        /\ Done => now = MaxLatencyUpTo(N)

\* Three providers of different latencies: the call ends at the largest.
C7_Witness ==
    /\ mode = "compare_async"
    /\ Done
    /\ N = 3
    /\ Latency(1) = 2 /\ Latency(2) = 1 /\ Latency(3) = 2
    /\ now = 2
    /\ SumLatencyUpTo(N) = 5

\* C8: a provider whose backend never answers is ended by the timeout and
\* handled like any other failed provider: left out of the results when
\* others succeed, listed in the aggregate failure when none succeeds.
C8_TimeoutHandledAsFailure ==
    (Done /\ mode = "compare_async"
          /\ \E i \in Idx : fate[i] = "TimeoutError") =>
        /\ \A i \in Idx :
               fate[i] = "TimeoutError" => ResponsesOf(providers[i]) = 0
        /\ Succeeding = {} =>
               /\ outcome = "raised"
               /\ \A i \in Idx :
                      \E j \in 1..Len(errors) :
                          errors[j] = <<providers[i], fate[i]>>

\* Every call ends: it returns or raises.
Termination == <>(outcome # "pending")

\* C9: an adapter invocation goes from Idle to Dispatching to exactly one of
\* Succeeded and Failed, the final states are kept, and at most one network
\* call is dispatched per invocation.
C9_InvocationStateMachine ==
    [][\A i \in Idx :
          /\ st[i] = "Idle" => st'[i] \in {"Idle", "Dispatching"}
          /\ st[i] = "Dispatching" =>
                 st'[i] \in {"Dispatching", "Succeeded", "Failed"}
          /\ st[i] \in {"Succeeded", "Failed"} => st'[i] = st[i]
          /\ calls'[i] <= 1
          /\ calls'[i] # calls[i] =>
                 st[i] = "Idle" /\ st'[i] = "Dispatching"]_vars

\* A failed provider of compare was called once and the loop went on.
C9_Witness ==
    /\ mode = "compare"
    /\ Done
    /\ N = 3
    /\ st[1] = "Failed" /\ calls[1] = 1
    /\ st[2] = "Succeeded" /\ st[3] = "Failed"

\* C10: for the same provider list and the same outcome of every provider,
\* compare_async ends as compare does: the same results in the same order,
\* or an error of the same kind.
C10_AsyncEndsAsBlocking ==
    (Done /\ mode = "compare_async") => CallEnd = CompareEnd(fate)


\* The loop of compare, step by step, ends as CompareEnd computes.
CompareLoopAgrees == (Done /\ mode = "compare") => CallEnd = CompareEnd(fate)

\* ===================================================== provider selector
\* The orchestrator is not running a call.
OrchIdle ==
    /\ mode = "compare"
    /\ providers = <<>>
    /\ pc = "done"
    /\ k = 1
    /\ inst = <<>>
    /\ deleted = FALSE
    /\ st = <<>>
    /\ calls = <<>>
    /\ session = <<>>
    /\ opens = <<>>
    /\ releases = <<>>
    /\ closeCalls = <<>>
    /\ tpc = <<>>
    /\ slot = <<>>
    /\ fate = <<>>
    /\ results = <<>>
    /\ errors = <<>>
    /\ outcome = "pending"
    /\ raised = "none"
    /\ now = 0
    /\ dispatchedAt = <<>>
    /\ completedAt = <<>>

\* ---------------------------------------------------------------- bounds
\* The longest selector, counted in pieces.
MaxSelectorLen == 3

\* A selector string is the sequence of its pieces: each piece is a '/' or a
\* longest run of characters without '/'.
Slash == "/"

\* The runs without '/' that selectors are made of: registry keys, an alias,
\* model names in and out of the model lists, and a name nobody registered.
Runs == {"openai", "google", "gpt", "gpt-4", "gpt-5", "nope"}

Pieces == Runs \cup {Slash}

\* The strings of at most n pieces.  Two runs never touch: together they are
\* one run.
SelectorStrings(n) ==
    {s \in UNION {[1..m -> Pieces] : m \in 0..n} :
        \A i \in 1..(Len(s) - 1) : s[i] = Slash \/ s[i + 1] = Slash}

\* '/' in provider_name
HasSlash(s) == \E i \in 1..Len(s) : s[i] = Slash

FirstSlash(s) ==
    CHOOSE i \in 1..Len(s) : s[i] = Slash /\ \A h \in 1..(i - 1) : s[h] # Slash

\* The model of a parsed selector: a string, or Python's None.
Model(m) == [tag |-> "model", v |-> m]
NoModel == [tag |-> "none", v |-> <<>>]

\* parse_provider_name splitting at the last '/' (rsplit('/', 1)).
parse_provider_name_rsplit(provider_name) ==
    LET last == CHOOSE i \in 1..Len(provider_name) :
                    /\ provider_name[i] = Slash
                    /\ \A h \in (i + 1)..Len(provider_name) :
                           provider_name[h] # Slash
    IN  IF HasSlash(provider_name)
        THEN <<SubSeq(provider_name, 1, last - 1),
               Model(SubSeq(provider_name, last + 1, Len(provider_name)))>>
        ELSE <<provider_name, NoModel>>

\* parse_provider_name: provider_name.split('/', 1) when it holds a '/',
\* (provider_name, None) otherwise.
parse_provider_name(provider_name) ==
    IF HasSlash(provider_name)
    THEN <<SubSeq(provider_name, 1, FirstSlash(provider_name) - 1),
           Model(SubSeq(provider_name, FirstSlash(provider_name) + 1,
                        Len(provider_name)))>>
    ELSE <<provider_name, NoModel>>

ParseInit ==
    /\ selector \in SelectorStrings(MaxSelectorLen)
    /\ parsed = <<>>
    /\ resolved = <<>>
    /\ CallIdle
    /\ LangIdle
    /\ OrchIdle
    /\ ConfIdle
    /\ DemoIdle
    /\ SessIdle

\* parse_provider_name(selector) is called.
Parse ==
    /\ parsed = <<>>
    /\ parsed' = parse_provider_name(selector)
    /\ UNCHANGED <<selector, resolved, callVars, langVars, orchVars, confVars,
                   sessVars, demoVars>>

ParseNext == Parse

ParseSpec == ParseInit /\ [][ParseNext]_vars

\* C13: parse splits the selector at its first '/' only: the provider holds
\* no '/', provider + '/' + model is the selector again (later '/' stay in
\* the model); a selector without '/' gives (selector, None).
C13_ParseSplitsOnFirstSlash ==
    parsed # <<>> =>
        IF HasSlash(selector)
        THEN /\ ~HasSlash(parsed[1])
             /\ parsed[2].tag = "model"
             /\ parsed[1] \o <<Slash>> \o parsed[2].v = selector
        ELSE parsed = <<selector, NoModel>>

\* A selector with two '/' has been parsed: the second one is in the model.
C13_Witness ==
    /\ parsed # <<>>
    /\ Cardinality({i \in 1..Len(selector) : selector[i] = Slash}) = 2
    /\ parsed[2].tag = "model"
    /\ HasSlash(parsed[2].v)

\* ====================================================== language resolver
\* A string is the sequence of its characters.
\* ---------------------------------------------------------------- bounds
\* The most whitespace put on either side of an input.
MaxPad == 1

\* ------------------------------------------------------ program constants
\* difflib.get_close_matches(..., cutoff=0.8) and (..., cutoff=0.6), in
\* tenths, and the number of suggestions, n=3.
HighCutoff == 8
LowCutoff == 6
MaxSuggestions == 3

\* The letters str.lower() maps, lower case and upper case side by side.
LowerLetters ==
    <<"a", "b", "c", "d", "e", "f", "g", "h", "i", "j", "k", "l", "m", "n",
      "o", "p", "q", "r", "s", "t", "u", "v", "w", "x", "y", "z", "ç", "ê",
      "ñ">>

UpperLetters ==
    <<"A", "B", "C", "D", "E", "F", "G", "H", "I", "J", "K", "L", "M", "N",
      "O", "P", "Q", "R", "S", "T", "U", "V", "W", "X", "Y", "Z", "Ç", "Ê",
      "Ñ">>

\* The characters in code point order: Python compares strings by it.
CodePoints ==
    <<" ", "-">> \o SubSeq(UpperLetters, 1, 26) \o SubSeq(LowerLetters, 1, 26)
    \o SubSeq(UpperLetters, 27, 29) \o SubSeq(LowerLetters, 27, 29)

Ord(c) == CHOOSE i \in 1..Len(CodePoints) : CodePoints[i] = c

\* str.lower() and str.upper() on one character.
LowerChar(c) ==
    IF \E i \in 1..Len(UpperLetters) : UpperLetters[i] = c
    THEN LowerLetters[CHOOSE i \in 1..Len(UpperLetters) : UpperLetters[i] = c]
    ELSE c

UpperChar(c) ==
    IF \E i \in 1..Len(LowerLetters) : LowerLetters[i] = c
    THEN UpperLetters[CHOOSE i \in 1..Len(LowerLetters) : LowerLetters[i] = c]
    ELSE c

Lower(s) == [i \in 1..Len(s) |-> LowerChar(s[i])]

Upper(s) == [i \in 1..Len(s) |-> UpperChar(s[i])]

\* str.capitalize(): the first character in upper case.
Capitalize(s) == [i \in 1..Len(s) |-> IF i = 1 THEN UpperChar(s[i]) ELSE s[i]]

Space == " "

\* str.strip(): without the whitespace at either end.
Strip(s) ==
    LET inner == {i \in 1..Len(s) : s[i] # Space}
    IN  IF inner = {} THEN <<>>
        ELSE SubSeq(s, CHOOSE i \in inner : \A h \in inner : i <= h,
                       CHOOSE i \in inner : \A h \in inner : i >= h)

\* ISO_TO_NAME: the entries the chapter lists, and those of the languages
\* its alias and provider tables name.
ISO_TO_NAME ==
    {<< <<"e", "n">>, <<"e", "n", "g", "l", "i", "s", "h">> >>,
     << <<"f", "r">>, <<"f", "r", "e", "n", "c", "h">> >>,
     << <<"e", "s">>, <<"s", "p", "a", "n", "i", "s", "h">> >>,
     << <<"d", "e">>, <<"g", "e", "r", "m", "a", "n">> >>,
     << <<"z", "h">>, <<"c", "h", "i", "n", "e", "s", "e">> >>,
     << <<"p", "t">>, <<"p", "o", "r", "t", "u", "g", "u", "e", "s", "e">> >>,
     << <<"j", "a">>, <<"j", "a", "p", "a", "n", "e", "s", "e">> >>,
     << <<"f", "i", "l">>, <<"f", "i", "l", "i", "p", "i", "n", "o">> >>}

\* LANGUAGE_ALIASES, in the order of its keys, with the alias the tests
\* and examples use for french.  The aliases written in Arabic and Japanese
\* script are left out: those scripts have no letter case and no entry
\* below depends on them.
LANGUAGE_ALIASES ==
    << << <<"c", "h", "i", "n", "e", "s", "e">>,
          << <<"m", "a", "n", "d", "a", "r", "i", "n">>,
             <<"z", "h", "-", "c", "n">>,
             <<"z", "h", "-", "t", "w">>,
             <<"s", "i", "m", "p", "l", "i", "f", "i", "e", "d", " ",
               "c", "h", "i", "n", "e", "s", "e">> >> >>,
       << <<"s", "p", "a", "n", "i", "s", "h">>,
          << <<"c", "a", "s", "t", "i", "l", "i", "a", "n">>,
             <<"e", "s", "p", "a", "ñ", "o", "l">> >> >>,
       << <<"p", "o", "r", "t", "u", "g", "u", "e", "s", "e">>,
          << <<"p", "o", "r", "t", "u", "g", "u", "ê", "s">> >> >>,
       << <<"j", "a", "p", "a", "n", "e", "s", "e">>,
          << <<"n", "i", "h", "o", "n", "g", "o">> >> >>,
       << <<"f", "r", "e", "n", "c", "h">>,
          << <<"f", "r", "a", "n", "ç", "a", "i", "s">> >> >> >>

Range(f) == {f[i] : i \in DOMAIN f}

\* language in ISO_TO_NAME, and ISO_TO_NAME[language], in a table t.
InIso(t, language) == \E e \in t : e[1] = language

IsoName(t, language) == (CHOOSE e \in t : e[1] = language)[2]

\* NAME_TO_ISO = {name: code for code, name in ISO_TO_NAME.items()}
InNames(t, language) == \E e \in t : e[2] = language

NameIso(t, name) == (CHOOSE e \in t : e[2] = name)[1]

\* [alias.lower() for alias in aliases]
LoweredAliases(aliases) == {Lower(a) : a \in Range(aliases)}

\* The first key of LANGUAGE_ALIASES one of whose aliases the string is,
\* or 0.
AliasEntry(language) ==
    LET hits == {i \in 1..Len(LANGUAGE_ALIASES) :
                    language \in LoweredAliases(LANGUAGE_ALIASES[i][2])}
    IN  IF hits = {} THEN 0 ELSE CHOOSE i \in hits : \A h \in hits : i <= h

\* PROVIDER_MAPPINGS: per provider, the (name, code) entries.
PROVIDER_MAPPINGS ==
    [deepl |->
        {<< <<"p", "o", "r", "t", "u", "g", "u", "e", "s", "e">>,
            <<"p", "t", "-", "P", "T">> >>,
         << <<"e", "n", "g", "l", "i", "s", "h">>,
            <<"e", "n", "-", "U", "S">> >>},
     google |->
        {<< <<"c", "h", "i", "n", "e", "s", "e">>, <<"z", "h">> >>,
         << <<"f", "i", "l", "i", "p", "i", "n", "o">>, <<"t", "l">> >>}]

\* What a resolver call gives: the string returned, or the exception raised
\* with the suggestions it carries.
Returned(s) == [tag |-> "returned", v |-> s, suggestions |-> <<>>]

Raises(e, suggestions) == [tag |-> e, v |-> <<>>, suggestions |-> suggestions]

\* ---------------------------------------------------------------- difflib
\* SequenceMatcher: the characters in matching blocks.  The longest block
\* is taken, the one starting earliest in a and then in b; the pieces left
\* and right of it are matched the same way.
RECURSIVE MatchingCharacters(_, _)
MatchingCharacters(a, b) ==
    LET blocks ==
            {m \in (1..Len(a)) \X (1..Len(b)) \X (1..Min(Len(a), Len(b))) :
                /\ m[1] + m[3] - 1 <= Len(a)
                /\ m[2] + m[3] - 1 <= Len(b)
                /\ SubSeq(a, m[1], m[1] + m[3] - 1)
                       = SubSeq(b, m[2], m[2] + m[3] - 1)}
        longest ==
            CHOOSE m \in blocks : \A o \in blocks :
                \/ m[3] > o[3]
                \/ m[3] = o[3] /\ m[1] < o[1]
                \/ m[3] = o[3] /\ m[1] = o[1] /\ m[2] <= o[2]
    IN  IF blocks = {} THEN 0
        ELSE longest[3]
             + MatchingCharacters(SubSeq(a, 1, longest[1] - 1),
                                  SubSeq(b, 1, longest[2] - 1))
             + MatchingCharacters(
                   SubSeq(a, longest[1] + longest[3], Len(a)),
                   SubSeq(b, longest[2] + longest[3], Len(b)))

\* x < y as Python compares strings.
StrLess(x, y) ==
    \/ Len(x) < Len(y) /\ SubSeq(y, 1, Len(x)) = x
    \/ \E i \in 1..Min(Len(x), Len(y)) :
          /\ SubSeq(x, 1, i - 1) = SubSeq(y, 1, i - 1)
          /\ Ord(x[i]) < Ord(y[i])

\* get_close_matches(word, possibilities, n, cutoff): the possibilities whose
\* ratio 2.0 * M / T with the word is at least the cutoff, the n best of
\* them, best first; equal ratios are ordered by the strings, larger first.
get_close_matches(w, possibilities, n, cutoff) ==
    LET M == [x \in possibilities |-> MatchingCharacters(x, w)]
        T == [x \in possibilities |-> Len(x) + Len(w)]
        good == {x \in possibilities : 20 * M[x] >= cutoff * T[x]}
        Above(x, y) ==
            \/ M[x] * T[y] > M[y] * T[x]
            \/ M[x] * T[y] = M[y] * T[x] /\ StrLess(y, x)
    IN  [i \in 1..Min(n, Cardinality(good)) |->
            CHOOSE x \in good :
                Cardinality({y \in good : Above(y, x)}) = i - 1]

\* all_names: the names and the aliases.
all_names(t) ==
    {e[2] : e \in t}
    \cup UNION {Range(LANGUAGE_ALIASES[i][2]) :
                   i \in 1..Len(LANGUAGE_ALIASES)}

\* normalize_match: the name a matched entry of all_names stands for.
normalize_match(t, match) ==
    IF InNames(t, match) THEN match
    ELSE LANGUAGE_ALIASES[AliasEntry(Lower(match))][1]

\* normalize_language answering a name with its ISO code (step 2 returning
\* NAME_TO_ISO[language]).
normalize_language_name_to_code(t, language) ==
    LET l == Strip(Lower(language))
    IN  IF InIso(t, l) THEN Returned(IsoName(t, l))
        ELSE IF InNames(t, l) THEN Returned(NameIso(t, l))
        ELSE IF AliasEntry(l) # 0
             THEN Returned(LANGUAGE_ALIASES[AliasEntry(l)][1])
        ELSE LET matches ==
                     get_close_matches(l, all_names(t), MaxSuggestions,
                                       HighCutoff)
             IN  IF matches # <<>>
                 THEN Returned(normalize_match(t, matches[1]))
                 ELSE Raises("LanguageNotSupportedError",
                             get_close_matches(l, all_names(t),
                                               MaxSuggestions, LowCutoff))

\* normalize_language without .strip().
normalize_language_unstripped(t, language) ==
    LET l == Lower(language)
    IN  IF InIso(t, l) THEN Returned(IsoName(t, l))
        ELSE IF InNames(t, l) THEN Returned(l)
        ELSE IF AliasEntry(l) # 0
             THEN Returned(LANGUAGE_ALIASES[AliasEntry(l)][1])
        ELSE LET matches ==
                     get_close_matches(l, all_names(t), MaxSuggestions,
                                       HighCutoff)
             IN  IF matches # <<>>
                 THEN Returned(normalize_match(t, matches[1]))
                 ELSE Raises("LanguageNotSupportedError",
                             get_close_matches(l, all_names(t),
                                               MaxSuggestions, LowCutoff))

\* normalize_language settling for the best suggestion where it should
\* raise.
normalize_language_lenient(t, language) ==
    LET l == Strip(Lower(language))
    IN  IF InIso(t, l) THEN Returned(IsoName(t, l))
        ELSE IF InNames(t, l) THEN Returned(l)
        ELSE IF AliasEntry(l) # 0
             THEN Returned(LANGUAGE_ALIASES[AliasEntry(l)][1])
        ELSE LET matches ==
                     get_close_matches(l, all_names(t), MaxSuggestions,
                                       LowCutoff)
             IN  IF matches # <<>>
                 THEN Returned(normalize_match(t, matches[1]))
                 ELSE Raises("LanguageNotSupportedError", <<>>)

\* normalize_language looking the string up among the names before the ISO
\* codes.
normalize_language_name_first(t, language) ==
    LET l == Strip(Lower(language))
    IN  IF InNames(t, l) THEN Returned(l)
        ELSE IF InIso(t, l) THEN Returned(IsoName(t, l))
        ELSE IF AliasEntry(l) # 0
             THEN Returned(LANGUAGE_ALIASES[AliasEntry(l)][1])
        ELSE LET matches ==
                     get_close_matches(l, all_names(t), MaxSuggestions,
                                       HighCutoff)
             IN  IF matches # <<>>
                 THEN Returned(normalize_match(t, matches[1]))
                 ELSE Raises("LanguageNotSupportedError",
                             get_close_matches(l, all_names(t),
                                               MaxSuggestions, LowCutoff))

\* normalize_language
normalize_language(t, language) ==
    LET l == Strip(Lower(language))
    IN  IF InIso(t, l) THEN Returned(IsoName(t, l))
        ELSE IF InNames(t, l) THEN Returned(l)
        ELSE IF AliasEntry(l) # 0
             THEN Returned(LANGUAGE_ALIASES[AliasEntry(l)][1])
        ELSE LET matches ==
                     get_close_matches(l, all_names(t), MaxSuggestions,
                                       HighCutoff)
             IN  IF matches # <<>>
                 THEN Returned(normalize_match(t, matches[1]))
                 ELSE Raises("LanguageNotSupportedError",
                             get_close_matches(l, all_names(t),
                                               MaxSuggestions, LowCutoff))

\* get_provider_code falling back to the ISO code without looking at the
\* provider's own table.
get_provider_code_iso_only(t, language, provider) ==
    LET n == normalize_language(t, language)
    IN  IF n.tag # "returned" THEN n
        ELSE IF InNames(t, n.v) THEN Returned(NameIso(t, n.v))
        ELSE Raises("KeyError", <<>>)

\* get_provider_code
get_provider_code(t, language, provider) ==
    LET n == normalize_language(t, language)
    IN  IF n.tag # "returned" THEN n
        ELSE IF /\ provider \in DOMAIN PROVIDER_MAPPINGS
                /\ \E e \in PROVIDER_MAPPINGS[provider] : e[1] = n.v
             THEN Returned((CHOOSE e \in PROVIDER_MAPPINGS[provider] :
                               e[1] = n.v)[2])
        ELSE IF InNames(t, n.v) THEN Returned(NameIso(t, n.v))
        ELSE Raises("KeyError", <<>>)

\* ------------------------------------------------- resolver calls modelled
\* The strings a table recognizes: its codes, its names and the aliases.
Recognized(t) ==
    {e[1] : e \in t} \cup {e[2] : e \in t}
    \cup UNION {Range(LANGUAGE_ALIASES[i][2]) :
                   i \in 1..Len(LANGUAGE_ALIASES)}

\* A name typed with one character missing ("frnch", "spansh", "germn").
Typos(t) ==
    UNION {{SubSeq(e[2], 1, i - 1) \o SubSeq(e[2], i + 1, Len(e[2])) :
               i \in 1..Len(e[2])} : e \in t}

\* A name cut short by three characters ("japan").
Clipped(t) == {SubSeq(e[2], 1, Len(e[2]) - 3) : e \in t}

\* A language no table has.
Unknown == {<<"k", "l", "i", "n", "g", "o", "n">>}

Pads == {[i \in 1..m |-> Space] : m \in 0..MaxPad}

\* A string as a caller may type it: in lower case, in upper case or
\* capitalized, with whitespace around it.
Spellings(w) ==
    {l \o c \o r : l \in Pads, r \in Pads,
                   c \in {w, Upper(w), Capitalize(w)}}

LanguageInputs(t) ==
    UNION {Spellings(w) :
              w \in Recognized(t) \cup Typos(t) \cup Clipped(t) \cup Unknown}

LangInit ==
    /\ tables = ISO_TO_NAME
    /\ word \in LanguageInputs(ISO_TO_NAME)
    /\ lpc = "start"
    /\ normalized = <<>>
    /\ again = <<>>
    /\ code = <<>>
    /\ ParseIdle
    /\ CallIdle
    /\ OrchIdle
    /\ ConfIdle
    /\ DemoIdle
    /\ SessIdle

\* normalize_language(word)
Normalize ==
    /\ lpc = "start"
    /\ normalized' = normalize_language(tables, word)
    /\ lpc' = "normalized"
    /\ UNCHANGED <<tables, word, again, code, parseVars, callVars, orchVars, confVars,
                   sessVars, demoVars>>

\* normalize_language applied to what it returned.
NormalizeAgain ==
    /\ lpc = "normalized"
    /\ normalized.tag = "returned"
    /\ again' = normalize_language(tables, normalized.v)
    /\ lpc' = "again"
    /\ UNCHANGED <<tables, word, normalized, code, parseVars, callVars,
                   orchVars, confVars, sessVars, demoVars>>

\* get_provider_code(language, provider) for the canonical name, any number
\* of times and for any provider.
ProviderCode(provider) ==
    /\ lpc \in {"again", "coded"}
    /\ code' = [provider |-> provider,
                result |-> get_provider_code(tables, normalized.v, provider)]
    /\ lpc' = "coded"
    /\ UNCHANGED <<tables, word, normalized, again, parseVars, callVars,
                   orchVars, confVars, sessVars, demoVars>>

LangNext ==
    \/ Normalize
    \/ NormalizeAgain
    \/ \E provider \in PROVIDERS : ProviderCode(provider)

LangSpec == LangInit /\ [][LangNext]_vars

\* The strings that stand for the language of entry e: its code, its name,
\* its aliases, in any spelling.
AliasesOf(name) ==
    UNION {Range(LANGUAGE_ALIASES[i][2]) :
              i \in {h \in 1..Len(LANGUAGE_ALIASES) :
                        LANGUAGE_ALIASES[h][1] = name}}

SpellingsOfLanguage(e) ==
    UNION {Spellings(x) : x \in {e[1], e[2]} \cup AliasesOf(e[2])}

Unmatched(t, language) ==
    LET l == Strip(Lower(language))
    IN  /\ l \notin {Lower(x) : x \in Recognized(t)}
        /\ \A x \in all_names(t) :
              20 * MatchingCharacters(x, l) < HighCutoff * (Len(x) + Len(l))

ExtraEntries ==
    {<< <<"g", "a", "a">>, <<"g", "a">> >>,
     << <<"g", "a">>, <<"i", "r", "i", "s", "h">> >>,
     << <<"c", "m", "n">>, <<"m", "a", "n", "d", "a", "r", "i", "n">> >>}

\* The tables the resolver may be loaded with.
TableFamily == {ISO_TO_NAME \cup extra : extra \in SUBSET ExtraEntries}

\* The resolver is given, one string at a time, everything its table
\* recognizes.
LangTablesInit ==
    /\ tables \in TableFamily
    /\ word \in Recognized(tables)
    /\ lpc = "start"
    /\ normalized = <<>>
    /\ again = <<>>
    /\ code = <<>>
    /\ ParseIdle
    /\ CallIdle
    /\ OrchIdle
    /\ ConfIdle
    /\ DemoIdle
    /\ SessIdle

LangTablesSpec == LangTablesInit /\ [][LangNext]_vars

\* A name of the table is also the ISO code of another language.
NameIsAnotherCode(t, name) == \E e \in t : e[1] = name /\ e[2] # name

MaxCompared == 2
MaxConfigured == 2

\* PROVIDER_ALIASES
PROVIDER_ALIASES ==
    [x \in {"google-translate", "gpt", "chatgpt", "claude"} |->
        CASE x = "google-translate" -> "google"
          [] x = "gpt" -> "openai"
          [] x = "chatgpt" -> "openai"
          [] x = "claude" -> "anthropic"]

\* PROVIDER_ALIASES as the model selection chapter extends it: the Gemini
\* names and two shortcuts whose values name a provider and a model.
ModelSelectionAliases ==
    [x \in {"google-translate", "gpt", "claude", "gemini", "google-gemini",
             "gpt-4", "claude-3-5"} |->
        CASE x = "google-translate" -> "google"
          [] x = "gpt" -> "openai"
          [] x = "claude" -> "anthropic"
          [] x = "gemini" -> "google-gemini"
          [] x = "google-gemini" -> "google-gemini"
          [] x = "gpt-4" -> "openai/gpt-4"
          [] x = "claude-3-5" -> "anthropic/claude-3-5-sonnet"]

\* Every alias of either table.
Aliases == ModelSelectionAliases @@ PROVIDER_ALIASES

\* The registry's keys as the model selection chapter extends them.
ModelSelectionProviders == {"openai", "anthropic", "google-gemini"}

\* supported_models and default_model of each provider class; the classical
\* translators declare none.
supported_models(provider) ==
    CASE provider = "openai" ->
            {"gpt-4", "gpt-4-turbo", "gpt-4o", "gpt-3.5-turbo", "gpt-4o-mini"}
      [] provider = "anthropic" ->
            {"claude-3-5-sonnet-20241022", "claude-3-5-sonnet-20240620",
             "claude-3-sonnet-20240229", "claude-3-haiku-20240307",
             "claude-3-opus-20240229"}
      [] OTHER -> {}

default_model(provider) ==
    CASE provider = "openai" -> <<"gpt-3.5-turbo">>
      [] provider = "anthropic" -> <<"claude-3-5-sonnet-20241022">>
      [] OTHER -> <<>>

\* The string a sequence of pieces spells when it is a single run ("" for
\* the empty string; several pieces spell no name of any table).
AsName(s) ==
    IF Len(s) = 0 THEN ""
    ELSE IF Len(s) = 1 THEN s[1]
    ELSE "?"

\* resolve_provider_and_model: the selector parsed, the provider part taken
\* through the alias table.
resolve_provider_and_model(s) ==
    LET p == parse_provider_name(s)
        name == AsName(p[1])
    IN  <<IF name \in DOMAIN Aliases THEN Aliases[name] ELSE name,
          p[2].v>>

\* BaseProvider.__init__ keeping the class's default model whatever model
\* it is given.
BaseProviderInitDefaultModel(provider, model) ==
    [tag |-> "adapter", provider |-> provider,
     model |-> default_model(provider)]

\* BaseProvider.__init__ accepting any model string.
BaseProviderInitPermissive(provider, model) ==
    [tag |-> "adapter", provider |-> provider,
     model |-> IF model # <<>> THEN model ELSE default_model(provider)]

\* BaseProvider.__init__: self.model = model or self.default_model, and
\* ValueError for a model outside a declared supported_models.
BaseProviderInit(provider, model) ==
    LET m == IF model # <<>> THEN model ELSE default_model(provider)
    IN  IF /\ supported_models(provider) # {}
           /\ m # <<>>
           /\ AsName(m) \notin supported_models(provider)
        THEN [tag |-> "exception", provider |-> "ValueError", model |-> <<>>]
        ELSE [tag |-> "adapter", provider |-> provider, model |-> m]

\* create_provider_instance giving the first registered provider for a name
\* the registry does not hold.
create_provider_instance_or_default(name, model) ==
    IF name \notin PROVIDERS THEN BaseProviderInit(RegistryOrder[1], model)
    ELSE BaseProviderInit(name, model)

\* create_provider_instance: PROVIDERS[name](model), KeyError for a name the
\* registry does not hold.
create_provider_instance(name, model) ==
    IF name \notin PROVIDERS
    THEN [tag |-> "exception", provider |-> "KeyError", model |-> <<>>]
    ELSE BaseProviderInit(name, model)

\* list_configured_providers: the providers with a credential, in the order
\* the credentials were configured.
list_configured_providers(cfg) == cfg

\* TranslationRequest accepting any text.
TranslationRequestUnchecked(t) == "ok"

\* TranslationRequest(text=...): ValueError for an empty text.
TranslationRequest(t) == IF t = "" THEN "ValueError" ELSE "ok"

\* get_api_key: ConfigurationError when <provider>_api_key is not in _config.
get_api_key(cfg, provider) ==
    IF provider \in Range(cfg) THEN "ok" ELSE "ConfigurationError"


\* ---------------------------------------------------------------- inputs
\* Selectors of a call: a registered provider alone, with a model of its
\* list, with a model outside its list, an alias, a provider that declares
\* no models, and a name the registry does not hold.
CallSelectors ==
    {<<"openai">>, <<"openai", Slash, "gpt-4">>, <<"openai", Slash, "gpt-5">>,
     <<"gpt">>, <<"google">>, <<"nope">>}

SelectorLists(n) == UNION {[1..m -> CallSelectors] : m \in 0..n}

\* The providers a credential may be configured for.
Configurable == {"google", "openai"}

\* _config after configure(): the configured providers in insertion order.
Configurations(n) ==
    {c \in UNION {[1..m -> Configurable] : m \in 0..n} :
        \A i, j \in DOMAIN c : c[i] = c[j] => i = j}

Texts == {"", "Hello"}

\* A target that resolves ("Fr") and one that resolves to nothing.
Targets == {<<"F", "r">>, <<"x", "x">>}

\* The answers of a backend to a call of this section.
CallReplies == {"ok", "401"}

\* The selector that names a provider alone.
SelectorOf(provider) == <<provider>>

\* self._session of adapter i as _get_session and close test it.
SessionState(refs, pl, i) ==
    IF refs[i] = 0 THEN "none"
    ELSE IF pl[refs[i]].closed THEN "closed"
    ELSE "open"

\* _get_session creating a session on every call.
get_session_always_new(refs, pl, i) ==
    [ref |-> Len(pl) + 1,
     pool |-> Append(pl, [owner |-> i, closed |-> FALSE])]

\* BaseProvider._get_session: a ClientSession is created and kept in
\* self._session when there is none or it is closed; self._session is
\* returned.
get_session(refs, pl, i) ==
    IF NeedsNewSession(SessionState(refs, pl, i))
    THEN [ref |-> Len(pl) + 1,
          pool |-> Append(pl, [owner |-> i, closed |-> FALSE])]
    ELSE [ref |-> refs[i], pool |-> pl]

\* BaseProvider.close: self._session.close() when there is a session and it
\* is not closed.
close(refs, pl, i) ==
    IF ClosesSession(SessionState(refs, pl, i))
    THEN [pl EXCEPT ![refs[i]].closed = TRUE]
    ELSE pl

CallInit ==
    /\ entry \in {"translate_async", "compare_async"}
    /\ config \in Configurations(MaxConfigured)
    /\ text \in Texts
    /\ target \in Targets
    /\ selectors \in SelectorLists(MaxCompared)
    /\ entry = "translate_async" => Len(selectors) <= 1
    /\ chosen = <<>>
    /\ cpc = "start"
    /\ cur = 0
    /\ adapters = <<>>
    /\ network = <<>>
    /\ collected = <<>>
    /\ ended = <<>>
    /\ ParseIdle
    /\ LangIdle
    /\ OrchIdle
    /\ ConfIdle
    /\ DemoIdle
    /\ SessIdle

\* The call ends by raising e.
Fail(e) ==
    /\ cpc' = "done"
    /\ ended' = Raised(e)

\* Smart provider selection: if not provider, the first of
\* list_configured_providers(); configured[0] of an empty list is an
\* IndexError.
SelectDefault ==
    /\ cpc = "start"
    /\ IF entry = "translate_async" /\ selectors = <<>>
       THEN LET configured == list_configured_providers(config)
            IN  IF configured = <<>>
                THEN /\ Fail("IndexError")
                     /\ UNCHANGED chosen
                ELSE /\ chosen' = <<SelectorOf(configured[1])>>
                     /\ cpc' = "normalize"
                     /\ UNCHANGED ended
       ELSE /\ chosen' = selectors
            /\ cpc' = "normalize"
            /\ UNCHANGED ended
    /\ UNCHANGED <<entry, config, text, target, selectors, cur, adapters,
                   network, collected>>
    /\ UNCHANGED <<orchVars, parseVars, langVars, confVars, sessVars, demoVars>>

\* normalized_target = normalize_language(target_language)
NormalizeTarget ==
    /\ cpc = "normalize"
    /\ LET r == normalize_language(ISO_TO_NAME, target)
       IN  IF r.tag = "returned"
           THEN /\ cpc' = "request"
                /\ UNCHANGED ended
           ELSE Fail(r.tag)
    /\ UNCHANGED <<entry, config, text, target, selectors, chosen, cur,
                   adapters, network, collected>>
    /\ UNCHANGED <<orchVars, parseVars, langVars, confVars, sessVars, demoVars>>

\* request = TranslationRequest(text=text, ...)
CreateRequest ==
    /\ cpc = "request"
    /\ IF TranslationRequest(text) = "ok"
       THEN /\ cpc' = "instantiate"
            /\ cur' = 1
            /\ UNCHANGED ended
       ELSE /\ Fail(TranslationRequest(text))
            /\ UNCHANGED cur
    /\ UNCHANGED <<entry, config, text, target, selectors, chosen, adapters,
                   network, collected>>
    /\ UNCHANGED <<orchVars, parseVars, langVars, confVars, sessVars, demoVars>>

\* create_provider_instance reached only after the adapter before it has
\* been invoked: each adapter's request is posted as soon as the adapter is
\* constructed.
CreateInstanceInvokingAtOnce ==
    /\ cpc = "instantiate"
    /\ cur <= Len(chosen)
    /\ LET r == resolve_provider_and_model(chosen[cur])
           a == create_provider_instance(r[1], r[2])
           got == get_session(Append(sessionRef, 0), pool, cur)
       IN  IF a.tag = "exception"
           THEN /\ Fail(a.provider)
                /\ UNCHANGED <<cur, adapters, sessionRef, pool, network>>
           ELSE /\ adapters' = Append(adapters, a)
                /\ sessionRef' = [Append(sessionRef, 0) EXCEPT ![cur] = got.ref]
                /\ pool' = got.pool
                /\ network' = Append(network, [provider |-> a.provider,
                                               model |-> a.model])
                /\ cur' = cur + 1
                /\ UNCHANGED <<cpc, ended>>
    /\ UNCHANGED <<entry, config, text, target, selectors, chosen, collected,
                   inflight>>
    /\ UNCHANGED <<orchVars, parseVars, langVars, confVars, demoVars>>

\* create_provider_instance for the next selector, the adapter constructed
\* with self._session = None; an exception of the construction leaves the
\* call, no adapter having been invoked yet.
CreateInstance ==
    /\ cpc = "instantiate"
    /\ cur <= Len(chosen)
    /\ LET r == resolve_provider_and_model(chosen[cur])
           a == create_provider_instance(r[1], r[2])
       IN  IF a.tag = "exception"
           THEN /\ Fail(a.provider)
                /\ UNCHANGED <<cur, adapters, sessionRef>>
           ELSE /\ adapters' = Append(adapters, a)
                /\ sessionRef' = Append(sessionRef, 0)
                /\ cur' = cur + 1
                /\ UNCHANGED <<cpc, ended>>
    /\ UNCHANGED <<entry, config, text, target, selectors, chosen, network,
                   collected, pool, inflight>>
    /\ UNCHANGED <<orchVars, parseVars, langVars, confVars, demoVars>>

\* Every adapter is constructed: the invocations begin.
StartInvocations ==
    /\ cpc = "instantiate"
    /\ cur > Len(chosen)
    /\ cpc' = "invoke"
    /\ cur' = 1
    /\ UNCHANGED <<entry, config, text, target, selectors, chosen, adapters,
                   network, collected, ended>>
    /\ UNCHANGED <<orchVars, parseVars, langVars, confVars, sessVars, demoVars>>


\* request.target_language: translate_async builds the request after
\* target_language = normalize_language(target_language).
RequestTarget == normalize_language(ISO_TO_NAME, target).v

\* BaseProvider._create_response: the response carries the adapter's
\* provider_name, the request's target language and the metadata given.
create_response(a, request_target, metadata) ==
    [tag |-> "response", v |-> a.provider,
     target_language |-> request_target, metadata |-> metadata]

\* The metadata an adapter gives _create_response: its model.
ModelMetadata(a) == [model |-> a.model]

\* What one adapter's translate_async comes to: the credential is read
\* first (ConfigurationError without it, nothing being sent), then the
\* request is posted with the adapter's model and the reply handled.
AdapterTranslate(a, reply) ==
    IF get_api_key(config, a.provider) # "ok"
    THEN [sent |-> <<>>, result |-> Raised("ConfigurationError")]
    ELSE [sent |-> <<[provider |-> a.provider, model |-> a.model]>>,
          result |-> IF AdapterOutcome(reply) = "ok"
                     THEN create_response(a, RequestTarget, ModelMetadata(a))
                     ELSE Raised(AdapterOutcome(reply))]

\* translate_async: return await provider_instance.translate_async(request);
\* the adapter's exception is the call's.  The adapter takes its session
\* first, and the finally clause closes it.
InvokeOne(reply) ==
    /\ cpc = "invoke"
    /\ entry = "translate_async"
    /\ LET t == AdapterTranslate(adapters[1], reply)
           got == get_session(sessionRef, pool, 1)
           refs == [sessionRef EXCEPT ![1] = got.ref]
       IN  /\ network' = network \o t.sent
           /\ ended' = t.result
           /\ sessionRef' = refs
           /\ pool' = close(refs, got.pool, 1)
    /\ cpc' = "done"
    /\ UNCHANGED <<entry, config, text, target, selectors, chosen, cur,
                   adapters, collected, inflight>>
    /\ UNCHANGED <<orchVars, parseVars, langVars, confVars, demoVars>>

\* compare_async's translate_with_provider up to the post of the adapter's
\* translate_async: session = await self._get_session(), then the request
\* is sent when there is a credential for it.
StartEach ==
    /\ cpc = "invoke"
    /\ entry = "compare_async"
    /\ cur <= Len(adapters)
    /\ inflight = {}
    /\ LET got == get_session(sessionRef, pool, cur)
       IN  /\ sessionRef' = [sessionRef EXCEPT ![cur] = got.ref]
           /\ pool' = got.pool
           /\ inflight' = {[adapter |-> cur, sess |-> got.ref]}
    /\ network' = network \o AdapterTranslate(adapters[cur], "ok").sent
    /\ UNCHANGED <<entry, config, text, target, selectors, chosen, cpc, cur,
                   adapters, collected, ended>>
    /\ UNCHANGED <<orchVars, parseVars, langVars, confVars, demoVars>>

\* compare_async's translate_with_provider from the reply on: the adapter's
\* response, or None for any exception of its translate_async; finally
\* provider_instance.close().
InvokeEach(reply) ==
    /\ cpc = "invoke"
    /\ entry = "compare_async"
    /\ cur <= Len(adapters)
    /\ inflight # {}
    /\ LET t == AdapterTranslate(adapters[cur], reply)
       IN  collected' = Append(collected,
                               IF IsResponse(t.result) THEN t.result
                               ELSE None)
    /\ pool' = close(sessionRef, pool, cur)
    /\ inflight' = {}
    /\ cur' = cur + 1
    /\ UNCHANGED <<entry, config, text, target, selectors, chosen, cpc,
                   adapters, network, ended, sessionRef>>
    /\ UNCHANGED <<orchVars, parseVars, langVars, confVars, demoVars>>

\* compare_async: return ComparisonResult(request, successful_results), the
\* results that are responses.
ReturnComparison ==
    /\ cpc = "invoke"
    /\ entry = "compare_async"
    /\ cur > Len(adapters)
    /\ cpc' = "done"
    /\ ended' = [tag |-> "comparison",
                 v |-> SelectSeq(collected, IsResponse)]
    /\ UNCHANGED <<entry, config, text, target, selectors, chosen, cur,
                   adapters, network, collected>>
    /\ UNCHANGED <<orchVars, parseVars, langVars, confVars, sessVars, demoVars>>

CallNext ==
    \/ SelectDefault
    \/ NormalizeTarget
    \/ CreateRequest
    \/ CreateInstance
    \/ StartInvocations
    \/ \E reply \in CallReplies : InvokeOne(reply)
    \/ StartEach
    \/ \E reply \in CallReplies : InvokeEach(reply)
    \/ ReturnComparison

CallSpec == CallInit /\ [][CallNext]_vars

\* The call has ended by raising.
CallRaised == cpc = "done" /\ ended.tag = "exception"


\* ------------------------------------------------------------ properties
\* Nothing but the selector can stop this call: the text is non-empty, the
\* target resolves.
ArgumentsValid ==
    /\ text # ""
    /\ normalize_language(ISO_TO_NAME, target).tag = "returned"

\* The selector names a registered provider and a model outside the models
\* that provider declares.
UnlistedModel(s) ==
    LET r == resolve_provider_and_model(s)
    IN  /\ HasSlash(s)
        /\ r[1] \in PROVIDERS
        /\ r[2] # <<>>
        /\ AsName(r[2]) \notin supported_models(r[1])

\* C11: a translate call given "provider/model" with a registered provider
\* and a model outside that provider's list is not rejected client-side: the
\* adapter is constructed with that model and, the other arguments being
\* valid and the credential configured, the network call is dispatched with
\* that model.
C11_UnlistedModelIsDispatched ==
    (/\ cpc = "done"
     /\ entry = "translate_async"
     /\ Len(selectors) = 1
     /\ UnlistedModel(selectors[1])
     /\ ArgumentsValid
     /\ get_api_key(config, resolve_provider_and_model(selectors[1])[1]) = "ok")
    => LET r == resolve_provider_and_model(selectors[1])
       IN  /\ adapters = <<BaseProviderInitPermissive(r[1], r[2])>>
           /\ network = <<[provider |-> r[1], model |-> r[2]]>>


\* The selector's provider, after alias resolution, is not in the registry.
Unregistered(s) == resolve_provider_and_model(s)[1] \notin PROVIDERS

C14_DefaultIsFirstConfiguredElseConfigurationError ==
    (entry = "translate_async" /\ selectors = <<>> /\ cpc # "start")
    => IF config = <<>>
       THEN /\ cpc = "done"
            /\ ended.tag = "exception"
            /\ IsInstance(ended.v, "ConfigurationError")
       ELSE /\ chosen = <<SelectorOf(config[1])>>
            /\ \A i \in DOMAIN adapters : adapters[i].provider = config[1]
            /\ \A i \in DOMAIN network : network[i].provider = config[1]


\* The call's selectors are ones the registry and the model lists accept
\* and there is at least one; a translate call without selector has a
\* configured provider to default to.
SelectorsAccepted ==
    /\ \A i \in DOMAIN selectors :
          LET r == resolve_provider_and_model(selectors[i])
          IN  create_provider_instance(r[1], r[2]).tag = "adapter"
    /\ selectors = <<>> => (entry = "translate_async" /\ config # <<>>)

\* The providers the call selects.
Selected ==
    IF selectors = <<>> THEN {config[1]}
    ELSE {resolve_provider_and_model(selectors[i])[1] : i \in DOMAIN selectors}

\* Of the preconditions on the arguments, the errors of those violated.
ArgumentErrors ==
    {e \in {"ValueError"} : text = ""}
    \cup {e \in {"LanguageNotSupportedError"} :
            normalize_language(ISO_TO_NAME, target).tag # "returned"}

\* The error of a selected provider's missing credential.
CredentialErrors ==
    {e \in {"ConfigurationError"} :
        \E p \in Selected : get_api_key(config, p) # "ok"}

\* The call ended by raising one of the errors of es, nothing having been
\* sent.
FailedBeforeNetwork(es) ==
    /\ ended.tag = "exception"
    /\ ended.v \in es
    /\ network = <<>>

C16_EmptyProviderListRejected ==
    (cpc = "done" /\ entry = "compare_async" /\ selectors = <<>>)
    => /\ ended.tag = "exception"
       /\ adapters = <<>>
       /\ network = <<>>


\* ================================================= the configuration map
\* ---------------------------------------------------------------- bounds
\* The most configure calls of a run.
MaxConfigureCalls == 2

\* The keys and values configure is called with.
ConfigKeys == {"google_api_key", "test_key"}
ConfigValues == {"v1", "v2"}

\* The keys read: the ones configured and one never configured.
ReadKeys == ConfigKeys \cup {"missing_key"}

\* The dicts passed to configure.
Updates ==
    UNION {[ks -> ConfigValues] : ks \in (SUBSET ConfigKeys) \ {{}}}

\* key_name = f"{provider}_api_key"
KeyName(provider) ==
    CASE provider = "google" -> "google_api_key"
      [] provider = "openai" -> "openai_api_key"
      [] provider = "deepl" -> "deepl_api_key"
      [] OTHER -> "anthropic_api_key"

\* configure rebinding _config to its argument.
configure_replacing(d, u) == u

\* configure: _config.update(config)
configure(d, u) ==
    [x \in DOMAIN d \cup DOMAIN u |-> IF x \in DOMAIN u THEN u[x] ELSE d[x]]

\* The value a read returns.
Value(x) == [tag |-> "value", v |-> x]

\* get_config(key): the value of the key, ConfigurationError when the key
\* is not in _config.
get_config(d, key) ==
    IF key \notin DOMAIN d THEN Raised("ConfigurationError")
    ELSE Value(d[key])

\* The inputs the resolver is given between the reads.
ConfWords == {<<"F", "r">>, <<"x", "x">>}

ConfInit ==
    /\ settings = <<>>
    /\ history = <<>>
    /\ fetched = NoRead
    /\ tables = ISO_TO_NAME
    /\ word \in ConfWords
    /\ lpc = "start"
    /\ normalized = <<>>
    /\ again = <<>>
    /\ code = <<>>
    /\ ParseIdle
    /\ CallIdle
    /\ OrchIdle
    /\ SessIdle
    /\ DemoIdle

\* configure(u)
Configure(u) ==
    /\ Len(history) < MaxConfigureCalls
    /\ settings' = configure(settings, u)
    /\ history' = Append(history, u)
    /\ UNCHANGED fetched
    /\ UNCHANGED <<orchVars, parseVars, callVars, langVars, sessVars, demoVars>>

\* get_config(key)
GetConfig(key) ==
    /\ fetched' = [fn |-> "get_config", key |-> key, at |-> Len(history),
                   result |-> get_config(settings, key)]
    /\ UNCHANGED <<settings, history>>
    /\ UNCHANGED <<orchVars, parseVars, callVars, langVars, sessVars, demoVars>>

\* get_api_key(provider) storing a key it does not find.
GetApiKeyStoringDefault(provider) ==
    /\ fetched' = [fn |-> "get_api_key", key |-> KeyName(provider),
                   at |-> Len(history),
                   result |-> get_config(settings, KeyName(provider))]
    /\ settings' = IF KeyName(provider) \in DOMAIN settings THEN settings
                   ELSE configure(settings,
                                  [x \in {KeyName(provider)} |-> "v1"])
    /\ UNCHANGED history
    /\ UNCHANGED <<orchVars, parseVars, callVars, langVars, sessVars, demoVars>>

\* get_api_key(provider), as an adapter calls it: ConfigurationError when
\* <provider>_api_key is not in _config, its value otherwise.
GetApiKey(provider) ==
    /\ fetched' = [fn |-> "get_api_key", key |-> KeyName(provider),
                   at |-> Len(history),
                   result |-> get_config(settings, KeyName(provider))]
    /\ UNCHANGED <<settings, history>>
    /\ UNCHANGED <<orchVars, parseVars, callVars, langVars, sessVars, demoVars>>

ConfNext ==
    \/ \E u \in Updates : Configure(u)
    \/ \E key \in ReadKeys : GetConfig(key)
    \/ \E provider \in Configurable : GetApiKey(provider)
    \/ Normalize
    \/ NormalizeAgain
    \/ \E provider \in PROVIDERS : ProviderCode(provider)

ConfSpec == ConfInit /\ [][ConfNext]_vars


\* The configure calls, among the first n, that set the key.
SettersOf(key, n) == {i \in 1..n : key \in DOMAIN history[i]}

\* What a read of the key owes after the first n configure calls: the
\* value of the last call that set it, a configuration error when none did.
Owed(key, n) ==
    IF SettersOf(key, n) = {} THEN Raised("ConfigurationError")
    ELSE LET last == CHOOSE i \in SettersOf(key, n) :
                        \A j \in SettersOf(key, n) : j <= i
         IN  Value(history[last][key])

\* C21: the translation operations (the resolver's calls and the reads of
\* the configuration made for a call) leave the configuration map and the
\* language table as they are; the map changes only in a configure call.
C21_OnlyConfigureWrites ==
    [][/\ tables' = tables
       /\ settings' # settings => history' # history]_vars

\* After a configure call, a credential read, a normalize and a provider
\* code lookup, the map is what configure made it and the table is the one
\* loaded.
C21_Witness ==
    /\ history = <<[x \in {"google_api_key"} |-> "v1"]>>
    /\ fetched.fn = "get_api_key"
    /\ fetched.at = 1
    /\ lpc = "coded"
    /\ settings = [x \in {"google_api_key"} |-> "v1"]
    /\ tables = ISO_TO_NAME

\* C24: after any sequence of configure calls a read returns the value most
\* recently configured for its key, whichever call set it, and fails with a
\* configuration error for a key no call set.
C24_ReadReturnsLatestConfigured ==
    /\ fetched.fn # "none" => fetched.result = Owed(fetched.key, fetched.at)
    /\ \A key \in ReadKeys :
          get_config(settings, key) = Owed(key, Len(history))

\* Two configure calls, the second overwriting test_key alone: the read of
\* google_api_key still returns what the first call set.
C24_Witness ==
    /\ history = <<[x \in ConfigKeys |-> "v1"], [x \in {"test_key"} |-> "v2"]>>
    /\ fetched.fn = "get_config"
    /\ fetched.key = "google_api_key"
    /\ fetched.at = 2
    /\ fetched.result = Value("v1")
    /\ get_config(settings, "test_key") = Value("v2")
    /\ get_config(settings, "missing_key") = Raised("ConfigurationError")


\* ================================================ the adapters' sessions
\* ---------------------------------------------------------------- bounds
\* The adapter instances alive at once, and the sessions created in a run.
MaxInstances == 2
MaxSessions == 3

Instances == 1..MaxInstances

\* The adapters as constructed: self._session = None.
SessInit ==
    /\ sessionRef = [i \in Instances |-> 0]
    /\ pool = <<>>
    /\ inflight = {}
    /\ ParseIdle
    /\ CallIdle
    /\ LangIdle
    /\ OrchIdle
    /\ ConfIdle
    /\ DemoIdle

\* translate_async of adapter i up to its post: session = await
\* self._get_session(), then session.post(...).
TranslateBegin(i) ==
    /\ LET got == get_session(sessionRef, pool, i)
       IN  /\ Len(got.pool) <= MaxSessions
           /\ sessionRef' = [sessionRef EXCEPT ![i] = got.ref]
           /\ pool' = got.pool
           /\ inflight' = inflight \cup {[adapter |-> i, sess |-> got.ref]}
    /\ UNCHANGED <<orchVars, parseVars, callVars, langVars, confVars, demoVars>>

\* The request is answered, or fails.
TranslateEnd(r) ==
    /\ r \in inflight
    /\ inflight' = inflight \ {r}
    /\ UNCHANGED <<sessionRef, pool>>
    /\ UNCHANGED <<orchVars, parseVars, callVars, langVars, confVars, demoVars>>

\* close() of adapter i: the session is closed when there is one and it is
\* open.
CloseAdapter(i) ==
    /\ pool' = IF ClosesSession(SessionState(sessionRef, pool, i))
               THEN [pool EXCEPT ![sessionRef[i]].closed = TRUE]
               ELSE pool
    /\ UNCHANGED <<sessionRef, inflight>>
    /\ UNCHANGED <<orchVars, parseVars, callVars, langVars, confVars, demoVars>>

SessNext ==
    \/ \E i \in Instances : TranslateBegin(i)
    \/ \E r \in inflight : TranslateEnd(r)
    \/ \E i \in Instances : CloseAdapter(i)

SessSpec == SessInit /\ [][SessNext]_vars

\* The sessions adapter i created that are open.
OpenSessionsOf(i) ==
    {n \in DOMAIN pool : pool[n].owner = i /\ ~pool[n].closed}

\* C22: each adapter has at most one open session, the one self._session
\* refers to, a session being created only when the adapter has none or its
\* own is closed; no session is referred to by two adapters, and a request
\* in flight uses a session of its own adapter.
C22_OneOpenSessionPerAdapterNoneShared ==
    /\ \A i \in Instances :
          /\ Cardinality(OpenSessionsOf(i)) <= 1
          /\ OpenSessionsOf(i) \subseteq {sessionRef[i]}
          /\ sessionRef[i] # 0 => pool[sessionRef[i]].owner = i
    /\ \A i, j \in Instances :
          (i # j /\ sessionRef[i] # 0) => sessionRef[i] # sessionRef[j]
    /\ \A r \in inflight : pool[r.sess].owner = r.adapter

\* Two adapters with a request in flight each, the first on the session it
\* reopened after a close, the second on its first session.
C22_Witness ==
    /\ Len(pool) = 3
    /\ sessionRef = <<3, 2>>
    /\ pool[1] = [owner |-> 1, closed |-> TRUE]
    /\ ~pool[2].closed
    /\ ~pool[3].closed
    /\ [adapter |-> 1, sess |-> 3] \in inflight
    /\ [adapter |-> 2, sess |-> 2] \in inflight


\* ============================================= the adapters' failures
\* C23: every failed adapter invocation, timeouts included, ends in a typed
\* error of the library (ProviderError and its subclasses, or the
\* APIKeyError of a 401), never in an exception outside the library's
\* hierarchy, which carries no provider identifier.
C23_EveryFailureIsTypedProviderError ==
    \A i \in Idx :
        fate[i] \notin {"pending", "ok"} => IsInstance(fate[i], "DekaError")


\* ========================================= what a response says of itself
\* The response answers the selector: the provider the selector resolves
\* to, the selector's model (the adapter's default model for a selector
\* without '/') and the request's normalized target language.
Answers(r, s) ==
    LET sel == resolve_provider_and_model(s)
    IN  /\ r.v = sel[1]
        /\ r.metadata.model = IF HasSlash(s) THEN sel[2]
                              ELSE default_model(sel[1])
        /\ r.target_language = normalize_language(ISO_TO_NAME, target).v

ResolveInit == ParseInit

\* resolve_provider_and_model(selector) is called.
Resolve ==
    /\ resolved = <<>>
    /\ resolved' = resolve_provider_and_model(selector)
    /\ UNCHANGED <<selector, parsed, callVars, langVars, orchVars, confVars,
                   sessVars, demoVars>>

ResolveNext == Parse \/ Resolve

ResolveSpec == ResolveInit /\ [][ResolveNext]_vars

\* The keys of the registry, in either chapter's version of it.
Registered == PROVIDERS \cup ModelSelectionProviders

\* The provider part of the selector is an alias.
AliasSelected == AsName(parse_provider_name(selector)[1]) \in DOMAIN Aliases

\* C27: a selector whose provider part is an alias resolves to a key of the
\* provider registry, with the model the selector names (None when it names
\* none).
C27_AliasResolvesToRegisteredProvider ==
    (resolved # <<>> /\ AliasSelected) =>
        /\ resolved[1] \in Registered
        /\ resolved[2] = parse_provider_name(selector)[2].v


\* ---------------------------------------------------------------------------
\* compare_async: the adapters are constructed before any task.

\* Constructing the adapter of some selector of the call raises: the
\* provider is not registered, or its class rejects the model.
InstantiationFails ==
    \E i \in DOMAIN chosen :
        LET r == resolve_provider_and_model(chosen[i])
        IN  create_provider_instance(r[1], r[2]).tag = "exception"

\* Some selector of the call names a provider without a credential.
CredentialMissing ==
    \E i \in DOMAIN chosen :
        get_api_key(config, resolve_provider_and_model(chosen[i])[1]) # "ok"

\* The sessions of the call's adapters that are open.
OpenSessions == {n \in DOMAIN pool : ~pool[n].closed}

\* The call is a compare_async whose arguments are valid, past its
\* selection of the providers.
Comparing == entry = "compare_async" /\ ArgumentsValid /\ cpc # "start"

\* The call ends by raising, nothing sent and no session open.
FailsClean ==
    /\ network = <<>>
    /\ OpenSessions = {}
    /\ cpc = "done" => CallRaised

Quantum == 250
MaxClock == 3000

\* The delay of the mount effect's setTimeout and of handleTranslate's.
AutoTriggerDelay == 1000
TranslationDelay == 1500

\* const languages: the codes, in the order of the list.
languages == <<"en", "fr", "yo", "zu", "ha", "sw">>

LanguageCodes == {languages[i] : i \in DOMAIN languages}

\* The languages the "To" selector lists:
\* languages.filter(lang => lang.code !== sourceLanguage.code)
ToOptions(source) == {l \in LanguageCodes : l # source}

\* A number no pending timer has.
NextTimer(ts) ==
    IF ts = {} THEN 1
    ELSE 1 + (CHOOSE n \in {t.number : t \in ts} :
                 \A t \in ts : t.number <= n)

\* setTimeout(callback, delay) at time at.
SetTimeout(ts, kind, delay, at) ==
    ts \cup {[kind |-> kind, due |-> at + delay, number |-> NextTimer(ts)]}

\* The timer the event loop runs next: the earliest due, the earliest set
\* among those.
RunsNext(t) ==
    /\ t \in timers
    /\ t.due <= clock
    /\ \A u \in timers :
          u.due > t.due \/ (u.due = t.due /\ u.number >= t.number)

\* The component as mounted: useState(languages[0]), useState(languages[1]),
\* useState(false) twice, and the mount effect's setTimeout.
DemoInit ==
    /\ sourceLanguage = languages[1]
    /\ targetLanguage = languages[2]
    /\ isTranslating = FALSE
    /\ showResults = FALSE
    /\ clock = 0
    /\ timers = SetTimeout({}, "handleTranslate", AutoTriggerDelay, 0)
    /\ ParseIdle
    /\ CallIdle
    /\ LangIdle
    /\ OrchIdle
    /\ ConfIdle
    /\ SessIdle

\* handleTranslate: setIsTranslating(true); setShowResults(false); and the
\* timeout that ends the simulated translation, added to the timers ts.
handleTranslate(ts) ==
    /\ isTranslating' = TRUE
    /\ showResults' = FALSE
    /\ timers' = SetTimeout(ts, "finish", TranslationDelay, clock)

\* A language of the "From" selector is picked: onSelect={setSourceLanguage}.
SelectFrom(l) ==
    /\ l \in LanguageCodes
    /\ sourceLanguage' = l
    /\ UNCHANGED <<targetLanguage, isTranslating, showResults, timers, clock>>
    /\ UNCHANGED <<orchVars, parseVars, callVars, langVars, confVars, sessVars>>

\* A language of the "To" selector is picked: onSelect={setTargetLanguage}.
SelectTo(l) ==
    /\ l \in ToOptions(sourceLanguage)
    /\ targetLanguage' = l
    /\ UNCHANGED <<sourceLanguage, isTranslating, showResults, timers, clock>>
    /\ UNCHANGED <<orchVars, parseVars, callVars, langVars, confVars, sessVars>>

\* The button is clicked: onClick={handleTranslate} disabled={isTranslating}.
ClickTranslate ==
    /\ ~isTranslating
    /\ handleTranslate(timers)
    /\ UNCHANGED <<sourceLanguage, targetLanguage, clock>>
    /\ UNCHANGED <<orchVars, parseVars, callVars, langVars, confVars, sessVars>>

\* The mount effect's timeout runs: handleTranslate().
AutoTrigger(t) ==
    /\ RunsNext(t)
    /\ t.kind = "handleTranslate"
    /\ handleTranslate(timers \ {t})
    /\ UNCHANGED <<sourceLanguage, targetLanguage, clock>>
    /\ UNCHANGED <<orchVars, parseVars, callVars, langVars, confVars, sessVars>>

\* A timeout of handleTranslate runs: setIsTranslating(false);
\* setShowResults(true).
FinishTranslation(t) ==
    /\ RunsNext(t)
    /\ t.kind = "finish"
    /\ isTranslating' = FALSE
    /\ showResults' = TRUE
    /\ timers' = timers \ {t}
    /\ UNCHANGED <<sourceLanguage, targetLanguage, clock>>
    /\ UNCHANGED <<orchVars, parseVars, callVars, langVars, confVars, sessVars>>

\* Time passes, every timeout that is due having run.
TimePasses ==
    /\ clock < MaxClock
    /\ \A t \in timers : t.due > clock
    /\ clock' = clock + Quantum
    /\ UNCHANGED <<sourceLanguage, targetLanguage, isTranslating, showResults,
                   timers>>
    /\ UNCHANGED <<orchVars, parseVars, callVars, langVars, confVars, sessVars>>

DemoNext ==
    \/ \E l \in LanguageCodes : SelectFrom(l)
    \/ \E l \in LanguageCodes : SelectTo(l)
    \/ ClickTranslate
    \/ \E t \in timers : AutoTrigger(t)
    \/ \E t \in timers : FinishTranslation(t)
    \/ TimePasses

DemoSpec == DemoInit /\ [][DemoNext]_vars

\* C29: the selected source language and the selected target language of
\* the comparison demo are different languages, whatever has been picked in
\* the "From" and "To" selectors.
C29_SourceAndTargetDiffer == sourceLanguage # targetLanguage

\* A simulated translation is in flight: a timeout of handleTranslate is
\* pending.
TranslationPending == \E t \in timers : t.kind = "finish"

\* C30: while a timeout of handleTranslate is pending, isTranslating is true
\* and showResults is false, however the mount effect's call and the clicks
\* interleave.
C30_TranslatingWhileTimerPending ==
    TranslationPending => (isTranslating /\ ~showResults)

====
